---- MODULE Spec2Model ----
(***************************************************************************)
(* SafeSchool Edge network administration service                          *)
(* (deploy/edge/image/network-admin.py): rate limiter, session table,      *)
(* admin token, validation and rendering of a netplan configuration, its   *)
(* application to /etc/netplan and the delayed `netplan apply`.            *)
(*                                                                         *)
(* Strings the code inspects character by character (tokens, addresses,    *)
(* CIDR, hostnames) are sequences of one-character strings; "~" stands for *)
(* any non-ASCII character and "\n" for a newline.                          *)
(***************************************************************************)
EXTENDS Integers, Sequences, FiniteSets, TLC

\* ---- program constants ------------------------------------------------
SESSION_TIMEOUT == 3600
RATE_LIMIT == 5
RATE_WINDOW == 60
ACTIVATE_DELAY == 2
MAX_BODY == 65536

\* ---- bounds of the model ----------------------------------------------
\* number of clock advances in one behaviour
MaxTicks == 3
\* number of calls / requests handled in one behaviour
MaxOps == 7
\* number of session identifiers create_session hands out
MaxSessions == 2
\* number of direct calls of apply_network_config in one behaviour
MaxCalls == 2
\* number of HTTP requests in one behaviour
MaxReqs == 2
\* number of requests the model keeps apart while they are handled
MaxHandlers == 2
\* number of calls the handlers make in one behaviour
MaxServed == 3

Clients == {"10.0.0.7", "10.0.0.8"}
\* the clock advances by one second, by the rate window or by the idle timeout
TickSteps == {1, RATE_WINDOW, SESSION_TIMEOUT}
\* candidate session cookies: 0 is the empty / unknown cookie
Sids == 0..MaxSessions
\* a handler is one NetworkAdminHandler instance, made for one request
Slots == 1..MaxHandlers

VARIABLES
    now,        \* time.time()
    ticks,      \* clock advances so far
    nops,       \* calls / requests handled so far
    rate_map,   \* _rate_map: client address -> accepted timestamps in the window
    sessions,   \* _sessions: session id -> last seen
    nsid,       \* session ids handed out so far (secrets.token_hex gives a fresh one)
    ev,         \* the last call and what it returned
    accepted,   \* history: per client, every timestamp check_rate_limit accepted
    lastOk,     \* history: per session id, time of its create or last successful validate
    token_file, \* TOKEN_FILE: whether it exists, and its text
    fs,         \* NETPLAN_DIR: the directory, NETPLAN_FILE and the other files in it
    hostlog,    \* the hostnames hostnamectl set-hostname was run with
    acts,       \* the `sleep 2 && netplan apply` processes still to run
    nacts,      \* the number of such processes started
    actlog,     \* what the last `netplan apply` found in NETPLAN_DIR
    pc,         \* where the running apply_network_config call stands
    call,       \* the running apply_network_config call
    args,       \* the arguments direct calls of apply_network_config are made with
    faulty,     \* whether file system and hostnamectl operations may fail
    req,        \* the last HTTP request
    resp,       \* the response to it
    handlers,   \* the requests being handled: where each stands in its call
    rate_lock,  \* _rate_lock: 0 when free, else the handler that holds it
    applied     \* history: what each successful apply_network_config call left

clockVars == <<now, ticks>>
tableVars == <<rate_map, sessions, nsid, accepted, lastOk>>
sysVars == <<fs, hostlog, acts, nacts, actlog>>
envVars == <<token_file, args, faulty>>
httpVars == <<req, resp>>
workVars == <<handlers, rate_lock>>
histVars == <<applied>>
vars == <<now, ticks, nops, rate_map, sessions, nsid, ev, accepted, lastOk, token_file,
          fs, hostlog, acts, nacts, actlog, pc, call, args, faulty, req, resp, handlers,
          rate_lock, applied>>

NoEv == [op |-> "none", key |-> "", sid |-> 0, ret |-> FALSE, val |-> <<>>, err |-> ""]
\* a handler that is in no call; in a call: the function, its argument, the
\* local `now` of check_rate_limit and the local `ts` of valid_session
NoFrame == [pc |-> "idle", op |-> "none", key |-> "", sid |-> 0, now |-> 0, ts |-> 0]

\* ---- strings ------------------------------------------------------------
Digits == {"0", "1", "2", "3", "4", "5", "6", "7", "8", "9"}
HexDigits == Digits \cup {"a", "b", "c", "d", "e", "f"}
Letters == {"a", "b", "c", "d", "e", "f", "g", "x", "z"}
Whitespace == {" ", "\n"}

DigitVal(c) ==
    CASE c = "0" -> 0 [] c = "1" -> 1 [] c = "2" -> 2 [] c = "3" -> 3 [] c = "4" -> 4
      [] c = "5" -> 5 [] c = "6" -> 6 [] c = "7" -> 7 [] c = "8" -> 8 [] c = "9" -> 9

RECURSIVE DecVal(_)
DecVal(s) == IF s = <<>> THEN 0
             ELSE 10 * DecVal(SubSeq(s, 1, Len(s) - 1)) + DigitVal(s[Len(s)])

AllIn(s, set) == \A i \in 1..Len(s) : s[i] \in set

\* str.split(sep): the parts between the occurrences of sep
RECURSIVE Split(_, _)
Split(s, sep) ==
    IF \A i \in 1..Len(s) : s[i] # sep THEN <<s>>
    ELSE LET k == CHOOSE i \in 1..Len(s) :
                      s[i] = sep /\ \A j \in 1..(i - 1) : s[j] # sep
         IN  <<SubSeq(s, 1, k - 1)>> \o Split(SubSeq(s, k + 1, Len(s)), sep)

\* str.strip(): leading and trailing whitespace removed
RECURSIVE LStrip(_)
LStrip(s) == IF s # <<>> /\ s[1] \in Whitespace THEN LStrip(Tail(s)) ELSE s
RECURSIVE RStrip(_)
RStrip(s) == IF s # <<>> /\ s[Len(s)] \in Whitespace
             THEN RStrip(SubSeq(s, 1, Len(s) - 1)) ELSE s
Strip(s) == RStrip(LStrip(s))

\* a JSON value of a request body: a string, or a number (v its decimal digits)
JStr(s) == [t |-> "str", v |-> s]
JNum(s) == [t |-> "num", v |-> s]
\* Python truthiness of a JSON value
Truthy(j) == IF j.t = "str" THEN j.v # <<>> ELSE DecVal(j.v) # 0
\* str(x) of a JSON value
PyStr(j) == j.v

\* ---- ipaddress.ip_address ----------------------------------------------
\* IPv4Address._parse_octet
IsOctet(p) ==
    /\ Len(p) \in 1..3
    /\ AllIn(p, Digits)
    /\ (Len(p) > 1 => p[1] # "0")
    /\ DecVal(p) <= 255

IsIPv4(s) ==
    LET parts == Split(s, ".")
    IN  Len(parts) = 4 /\ \A i \in 1..4 : IsOctet(parts[i])

\* IPv6Address._parse_hextet
IsHextet(p) == Len(p) \in 1..4 /\ AllIn(p, HexDigits)

\* IPv6Address._ip_int_from_string
IsIPv6Int(s) ==
    LET raw == Split(s, ":")
        n0 == Len(raw)
        v4tail == n0 >= 1 /\ \E i \in 1..Len(raw[n0]) : raw[n0][i] = "."
        \* an embedded IPv4 tail stands for two hextets
        parts == IF v4tail THEN SubSeq(raw, 1, n0 - 1) \o <<<<"0">>, <<"0">>>> ELSE raw
        n == Len(parts)
        skips == {i \in 2..(n - 1) : parts[i] = <<>>}
    IN  /\ n0 >= 3
        /\ v4tail => IsIPv4(raw[n0])
        /\ n <= 9
        /\ Cardinality(skips) <= 1
        /\ IF skips # {}
           THEN LET k == CHOOSE i \in skips : TRUE
                    hi == IF parts[1] = <<>> THEN k - 2 ELSE k - 1
                    lo == IF parts[n] = <<>> THEN n - k - 1 ELSE n - k
                IN  /\ (parts[1] = <<>> => hi = 0)
                    /\ (parts[n] = <<>> => lo = 0)
                    /\ 8 - (hi + lo) >= 1
                    /\ \A i \in 1..hi : IsHextet(parts[i])
                    /\ \A i \in (n - lo + 1)..n : IsHextet(parts[i])
           ELSE /\ n = 8
                /\ \A i \in 1..n : IsHextet(parts[i])

\* IPv6Address(s): _split_scope_id cuts the address at the first "%"; what
\* follows is the scope id, any text that is not empty and holds no "%"
IsIPv6(s) ==
    IF \A i \in 1..Len(s) : s[i] # "%" THEN IsIPv6Int(s)
    ELSE LET k == CHOOSE i \in 1..Len(s) : s[i] = "%" /\ \A j \in 1..(i - 1) : s[j] # "%"
             scope == SubSeq(s, k + 1, Len(s))
         IN  /\ scope # <<>>
             /\ \A i \in 1..Len(scope) : scope[i] # "%"
             /\ IsIPv6Int(SubSeq(s, 1, k - 1))

\* ipaddress.ip_address(x) does not raise ValueError: a string is parsed as
\* IPv4, then as IPv6; an integer below 2^32 is an IPv4 address
IsIP(j) == j.t = "num" \/ IsIPv4(j.v) \/ IsIPv6(j.v)

\* int(s): surrounding whitespace, an optional sign, decimal digits
IntBody(s) == IF s # <<>> /\ s[1] \in {"+", "-"} THEN Tail(s) ELSE s
IsInt(s) == IntBody(Strip(s)) # <<>> /\ AllIn(IntBody(Strip(s)), Digits)
IntVal(s) == IF Strip(s)[1] = "-" THEN 0 - DecVal(IntBody(Strip(s)))
             ELSE DecVal(IntBody(Strip(s)))

\* ipaddress.ip_network(f"{ip}/{cidr}", strict=False) does not raise, for an ip
\* that ip_address accepted and a cidr that int() put in 1..32: the address
\* part is parsed again as a string and the prefix must be plain digits
IsNetwork(ip, cidr) ==
    /\ IsIPv4(PyStr(ip)) \/ IsIPv6(PyStr(ip))
    \* _split_addr_prefix: only one "/" in the whole text
    /\ \A i \in 1..Len(PyStr(ip)) : PyStr(ip)[i] # "/"
    /\ cidr # <<>>
    /\ AllIn(cidr, Digits)

\* re.match(r"^[a-zA-Z0-9]([a-zA-Z0-9\-]{0,61}[a-zA-Z0-9])?$", hostname):
\* "$" also matches before one trailing newline
AlNum == Digits \cup Letters
IsLabel(h) ==
    /\ Len(h) \in 1..63
    /\ h[1] \in AlNum
    /\ h[Len(h)] \in AlNum
    /\ AllIn(h, AlNum \cup {"-"})
HostnameMatch(h) ==
    \/ IsLabel(h)
    \/ Len(h) >= 2 /\ h[Len(h)] = "\n" /\ IsLabel(SubSeq(h, 1, Len(h) - 1))

\* ---- rate limiter -------------------------------------------------------
\* hits[:] = [t for t in hits if now - t < RATE_WINDOW]
Prune(hits, t) == SelectSeq(hits, LAMBDA x : t - x < RATE_WINDOW)

\* the value check_rate_limit returns
RateAllowedGt(rm, ip, t) == ~(Len(Prune(rm[ip], t)) > RATE_LIMIT)
RateAllowed(rm, ip, t) == ~(Len(Prune(rm[ip], t)) >= RATE_LIMIT)

\* the table check_rate_limit leaves
RateRecordAlways(rm, ip, t) == [rm EXCEPT ![ip] = Append(Prune(rm[ip], t), t)]
RateRecord(rm, ip, t) ==
    [rm EXCEPT ![ip] = IF RateAllowed(rm, ip, t)
                       THEN Append(Prune(rm[ip], t), t)
                       ELSE Prune(rm[ip], t)]

\* ---- sessions -----------------------------------------------------------
\* the value valid_session returns
SessionValidGe(s, sid, t) == sid \in DOMAIN s /\ ~(t - s[sid] >= SESSION_TIMEOUT)
SessionValid(s, sid, t) == sid \in DOMAIN s /\ ~(t - s[sid] > SESSION_TIMEOUT)

\* the table valid_session leaves: evict when idle, refresh otherwise
SessionTouch(s, sid, t) ==
    IF sid \notin DOMAIN s THEN s
    ELSE IF t - s[sid] > SESSION_TIMEOUT
         THEN [x \in DOMAIN s \ {sid} |-> s[x]]
         ELSE [s EXCEPT ![sid] = t]

\* the table create_session leaves
SessionAdd(s, sid, t) == [x \in DOMAIN s \cup {sid} |-> IF x = sid THEN t ELSE s[x]]

\* ---- apply_network_config: validation -----------------------------------
ERR_IP == "Invalid IP address"
ERR_CIDR == "CIDR must be between 1 and 32"
ERR_HOST == "Invalid hostname"
ERR_IFACE == "No network interface found"
ERR_WRITE == "Failed to write netplan"
\* f"Failed to write netplan: {e}": the cause names the statement that raised
WriteCauses == {"makedirs", "open", "write", "chmod"}
WriteError(cause) == ERR_WRITE \o ": " \o cause
WriteErrors == {WriteError(c) : c \in WriteCauses}
\* an exception that nothing in the call catches
RAISED == "raised"
PASSED == "passed"

\* dns_list = [d for d in [dns1, dns2] if d]
DnsList(a) == SelectSeq(<<a.dns1, a.dns2>>, Truthy)

\* The outcome of the checks and of building the text, in the order the code
\* makes them: an error message, RAISED or PASSED.  iface is the interface
\* after the get_default_interface() fallback.
Validate(a, iface) ==
    IF ~a.dhcp /\ ~IsIP(a.ip) THEN ERR_IP
    ELSE IF ~a.dhcp /\ ~IsIP(a.gateway) THEN ERR_IP
    ELSE IF ~a.dhcp /\ ~IsInt(a.cidr) THEN ERR_IP
    ELSE IF ~a.dhcp /\ (IntVal(a.cidr) < 1 \/ IntVal(a.cidr) > 32) THEN ERR_CIDR
    ELSE IF ~a.dhcp /\ ~IsNetwork(a.ip, a.cidr) THEN ERR_IP
    ELSE IF Truthy(a.dns1) /\ ~IsIP(a.dns1) THEN ERR_IP
    ELSE IF Truthy(a.dns2) /\ ~IsIP(a.dns2) THEN ERR_IP
    \* re.match on a value that is no string: TypeError
    ELSE IF Truthy(a.hostname) /\ a.hostname.t # "str" THEN RAISED
    ELSE IF Truthy(a.hostname) /\ ~HostnameMatch(a.hostname.v) THEN ERR_HOST
    ELSE IF iface = "" THEN ERR_IFACE
    \* ", ".join(dns_list) with an entry that is no string: TypeError
    ELSE IF ~a.dhcp /\ \E i \in 1..Len(DnsList(a)) : DnsList(a)[i].t # "str" THEN RAISED
    ELSE PASSED

\* ---- apply_network_config: the netplan text -------------------------------
\* The text as its fields: iface, dhcp4, dhcp6, the addresses and via of the
\* static block as lists of the texts written (empty when the block is not
\* written), the text inside the nameserver brackets, and stamp, the "Last
\* modified" line.
NoArt == [iface |-> "", dhcp4 |-> FALSE, dhcp6 |-> FALSE, addresses |-> <<>>,
          via |-> <<>>, nameservers |-> <<>>, stamp |-> 0 - 1]
\* "8.8.8.8, 1.1.1.1"
DefaultDns == <<"8", ".", "8", ".", "8", ".", "8", ",", " ",
                "1", ".", "1", ".", "1", ".", "1">>
\* sep.join(list)
RECURSIVE Join(_, _)
Join(list, sep) ==
    IF list = <<>> THEN <<>>
    ELSE IF Len(list) = 1 THEN list[1]
    ELSE list[1] \o sep \o Join(Tail(list), sep)

RenderStaticWhenIp(a, iface, t) ==
    IF a.dhcp /\ ~Truthy(a.ip)
    THEN [iface |-> iface, dhcp4 |-> TRUE, dhcp6 |-> FALSE, addresses |-> <<>>,
          via |-> <<>>, nameservers |-> <<>>, stamp |-> t]
    ELSE [iface |-> iface, dhcp4 |-> FALSE, dhcp6 |-> FALSE,
          addresses |-> << PyStr(a.ip) \o <<"/">> \o a.cidr >>,
          via |-> << PyStr(a.gateway) >>,
          \* the text between the brackets of `addresses: [{dns_str}]`
          nameservers |-> IF DnsList(a) # <<>>
                          THEN Join([i \in 1..Len(DnsList(a)) |-> DnsList(a)[i].v],
                                    <<",", " ">>)
                          ELSE DefaultDns,
          stamp |-> t]
Render(a, iface, t) ==
    IF a.dhcp
    THEN [iface |-> iface, dhcp4 |-> TRUE, dhcp6 |-> FALSE, addresses |-> <<>>,
          via |-> <<>>, nameservers |-> <<>>, stamp |-> t]
    ELSE [iface |-> iface, dhcp4 |-> FALSE, dhcp6 |-> FALSE,
          addresses |-> << PyStr(a.ip) \o <<"/">> \o a.cidr >>,
          via |-> << PyStr(a.gateway) >>,
          \* the text between the brackets of `addresses: [{dns_str}]`
          nameservers |-> IF DnsList(a) # <<>>
                          THEN Join([i \in 1..Len(DnsList(a)) |-> DnsList(a)[i].v],
                                    <<",", " ">>)
                          ELSE DefaultDns,
          stamp |-> t]

\* new_ip or "dhcp"
DHCP_SENTINEL == <<"d", "h", "c", "p">>
ReturnValue(a) == IF ~a.dhcp /\ Truthy(a.ip) THEN PyStr(a.ip) ELSE DHCP_SENTINEL

\* ---- NETPLAN_DIR ----------------------------------------------------------
NETPLAN_NAME == "99-safeschool-static.yaml"
OtherNames == {"00-installer-config.yaml", "50-cloud-init.yml", "README"}
\* fname.endswith(".yaml") or fname.endswith(".yml")
IsYamlName(f) == f \in {"99-safeschool-static.yaml", "00-installer-config.yaml",
                        "50-cloud-init.yml"}
\* os.listdir(NETPLAN_DIR)
ListDir(f) == f.others \cup (IF f.mstate # "absent" THEN {NETPLAN_NAME} ELSE {})
\* the files the cleanup loop removes
ToRemoveYamlOnly(f) ==
    {n \in ListDir(f) : n # NETPLAN_NAME /\ IsYamlName(n) /\ n # "50-cloud-init.yml"}
ToRemove(f) == {n \in ListDir(f) : n # NETPLAN_NAME /\ IsYamlName(n)}
\* the .yaml / .yml files of the directory
YamlFiles(f) == {n \in ListDir(f) : IsYamlName(n)}

\* mode of a file open() creates: 0o666 less the umask of the service
CreateModes == {"0644", "0600"}
OWNER_ONLY == "0600"

NoCall == [a |-> [ip |-> JStr(<<>>), cidr |-> <<>>, gateway |-> JStr(<<>>),
                  dns1 |-> JStr(<<>>), dns2 |-> JStr(<<>>), hostname |-> JStr(<<>>),
                  dhcp |-> FALSE],
           iface |-> "", art |-> NoArt, http |-> FALSE, cleanfail |-> FALSE,
           ok |-> FALSE, err |-> ""]
NoActLog == [runs |-> 0, mstate |-> "absent", art |-> NoArt, mode |-> "none",
             others |-> {}]
NoReq == [method |-> "none", path |-> "", client |-> "", cookie |-> 0,
          kind |-> "none", token |-> JStr(<<>>)]
NoResp == [status |-> 0, ok |-> "absent", error |-> "", cookie |-> 0, new_ip |-> <<>>,
           did |-> "none"]

\* ---- initial state ------------------------------------------------------
InitTables ==
    /\ applied = <<>>
    /\ handlers = [w \in Slots |-> NoFrame]
    /\ rate_lock = 0
    /\ now = 0
    /\ ticks = 0
    /\ nops = 0
    /\ ev = NoEv
    /\ lastOk = [s \in 1..MaxSessions |-> 0]
    /\ hostlog = <<>>
    /\ acts = {}
    /\ nacts = 0
    /\ actlog = NoActLog
    /\ pc = "idle"
    /\ call = NoCall
    /\ req = NoReq
    /\ resp = NoResp

\* the directory as the installer leaves it
FreshFs == [dir |-> TRUE, others |-> {"00-installer-config.yaml"}, mstate |-> "absent",
            art |-> NoArt, mode |-> "none"]

S_IP == <<"1", "0", ".", "0", ".", "0", ".", "5">>
S_GW == <<"1", "0", ".", "0", ".", "0", ".", "1">>
S_DNS == <<"8", ".", "8", ".", "8", ".", "8">>
S_HOST == <<"e", "-", "1">>
S_24 == <<"2", "4">>
StaticArgs == [ip |-> JStr(S_IP), cidr |-> S_24, gateway |-> JStr(S_GW),
               dns1 |-> JStr(S_DNS), dns2 |-> JStr(<<>>), hostname |-> JStr(S_HOST),
               dhcp |-> FALSE]
DhcpArgs == [ip |-> JStr(<<>>), cidr |-> S_24, gateway |-> JStr(<<>>),
             dns1 |-> JStr(<<>>), dns2 |-> JStr(<<>>), hostname |-> JStr(<<>>),
             dhcp |-> TRUE]

Init ==
    /\ InitTables
    /\ sessions = <<>>
    /\ nsid = 0
    /\ rate_map = [c \in Clients |-> <<>>]
    /\ accepted = rate_map
    /\ token_file = [exists |-> TRUE, text |-> <<"a", "\n">>]
    /\ fs = FreshFs
    /\ args = StaticArgs
    /\ faulty = FALSE

\* ---- the clock ----------------------------------------------------------
Tick(d) ==
    /\ ticks < MaxTicks
    /\ now' = now + d
    /\ ticks' = ticks + 1
    /\ UNCHANGED <<nops, tableVars, ev, sysVars, envVars, workVars, httpVars, pc, call,
                   histVars>>

TickAny == \E d \in TickSteps : Tick(d)
\* where only the activation delay matters the clock advances by seconds
TickSecond == Tick(1)

\* ---- direct calls of the rate limiter -----------------------------------
check_rate_limit(ip) ==
    /\ nops < MaxOps
    /\ nops' = nops + 1
    /\ rate_map' = RateRecord(rate_map, ip, now)
    /\ ev' = [op |-> "check_rate_limit", key |-> ip, sid |-> 0,
              ret |-> RateAllowed(rate_map, ip, now), val |-> <<>>, err |-> ""]
    /\ accepted' = IF RateAllowed(rate_map, ip, now)
                   THEN [accepted EXCEPT ![ip] = Append(@, now)]
                   ELSE accepted
    /\ UNCHANGED <<clockVars, sessions, nsid, lastOk, sysVars, envVars, workVars, httpVars, pc, call,
                   histVars>>

CallRate == \E ip \in Clients : check_rate_limit(ip)

NextRate == TickAny \/ CallRate

SpecRate == Init /\ [][NextRate]_vars

\* ---- direct calls of the session table ----------------------------------
create_session ==
    /\ nops < MaxOps
    /\ nsid < MaxSessions
    /\ nops' = nops + 1
    /\ nsid' = nsid + 1
    /\ sessions' = SessionAdd(sessions, nsid + 1, now)
    /\ ev' = [op |-> "create_session", key |-> "", sid |-> nsid + 1, ret |-> TRUE,
              val |-> <<>>, err |-> ""]
    /\ lastOk' = [lastOk EXCEPT ![nsid + 1] = now]
    /\ UNCHANGED <<clockVars, rate_map, accepted, sysVars, envVars, workVars, httpVars, pc,
                   call, histVars>>

valid_session(sid) ==
    /\ nops < MaxOps
    /\ nops' = nops + 1
    /\ sessions' = SessionTouch(sessions, sid, now)
    /\ ev' = [op |-> "valid_session", key |-> "", sid |-> sid,
              ret |-> SessionValid(sessions, sid, now), val |-> <<>>, err |-> ""]
    /\ lastOk' = IF SessionValid(sessions, sid, now)
                 THEN [lastOk EXCEPT ![sid] = now]
                 ELSE lastOk
    /\ UNCHANGED <<clockVars, nsid, rate_map, accepted, sysVars, envVars, workVars, httpVars,
                   pc, call, histVars>>

CallValid == \E sid \in Sids : valid_session(sid)

NextSession == TickAny \/ create_session \/ CallValid

SpecSession == Init /\ [][NextSession]_vars

\* ---- apply_network_config ------------------------------------------------
\* get_default_interface(): the interface of the default route, "" when none
Ifaces == {"", "eth0"}

\* where the call stands after the checks: a failed check returns at once
\* (an exception leaves the call as well), otherwise the cleanup is next
AfterChecksGoOn(v) == "cleanup"
AfterChecks(v) == IF v = PASSED THEN "cleanup" ELSE "idle"

\* Entry: the checks and the text.  given is the iface argument, found what
\* get_default_interface() returns when given is empty.
StartApply(a, given, found, http) ==
    LET iface == IF given # "" THEN given ELSE found
    IN  \E v \in {Validate(a, iface)} :
        /\ call' = IF v = PASSED
                   THEN [a |-> a, iface |-> iface, http |-> http, cleanfail |-> FALSE,
                         ok |-> FALSE, err |-> "", art |-> Render(a, iface, now)]
                   ELSE NoCall
        /\ pc' = AfterChecks(v)
        \* until the call returns, err tells how the checks ended
        /\ ev' = [op |-> "apply_network_config", key |-> "", sid |-> 0,
                  ret |-> FALSE, val |-> <<>>, err |-> v]

\* the directory after os.remove of the files in removed
RemoveFiles(f, removed) ==
    [f EXCEPT !.others = @ \ removed,
              !.mstate = IF NETPLAN_NAME \in removed THEN "absent" ELSE @,
              !.art = IF NETPLAN_NAME \in removed THEN NoArt ELSE @,
              !.mode = IF NETPLAN_NAME \in removed THEN "none" ELSE @]

\* "Remove any installer-generated DHCP configs": os.listdir raises when the
\* directory is missing; the first os.remove that raises ends the loop, so
\* any part of the files may be left.  Neither failure ends the call.
ApplyCleanupFatal ==
    /\ pc = "cleanup"
    /\ \E removed \in SUBSET ToRemove(fs) :
          /\ removed = ToRemove(fs) \/ faulty
          /\ fs' = RemoveFiles(fs, removed)
          /\ LET failed == ~fs.dir \/ removed # ToRemove(fs)
             IN  /\ call' = [call EXCEPT !.cleanfail = failed,
                                         !.err = IF failed THEN WriteError("open") ELSE @]
                 /\ pc' = IF failed THEN "return" ELSE "open"
    /\ UNCHANGED <<clockVars, nops, tableVars, ev, hostlog, acts, nacts, actlog, envVars, workVars,
                   httpVars, histVars>>
ApplyCleanupOne ==
    /\ pc = "cleanup"
    /\ \E removed \in SUBSET ToRemove(fs) :
          /\ Cardinality(removed) <= 1
          /\ removed # {} \/ ToRemove(fs) = {}
          /\ fs' = RemoveFiles(fs, removed)
          /\ call' = [call EXCEPT !.cleanfail = ~fs.dir]
    /\ pc' = "open"
    /\ UNCHANGED <<clockVars, nops, tableVars, ev, hostlog, acts, nacts, actlog, envVars, workVars,
                   httpVars, histVars>>
ApplyCleanup ==
    /\ pc = "cleanup"
    /\ \E removed \in SUBSET ToRemove(fs) :
          /\ removed = ToRemove(fs) \/ faulty
          /\ fs' = RemoveFiles(fs, removed)
          /\ call' = [call EXCEPT !.cleanfail = ~fs.dir \/ removed # ToRemove(fs)]
    /\ pc' = "open"
    /\ UNCHANGED <<clockVars, nops, tableVars, ev, hostlog, acts, nacts, actlog, envVars, workVars,
                   httpVars, histVars>>

\* a failure inside "Write new config" returns (False, "Failed to write ...")
Failed(cause) == [call EXCEPT !.ok = FALSE, !.err = WriteError(cause)]

\* os.makedirs(NETPLAN_DIR, exist_ok=True); open(NETPLAN_FILE, "w"): the file
\* is created with the mode the umask leaves, or truncated keeping its mode
ApplyOpen ==
    /\ pc = "open"
    /\ \/ /\ \E m \in CreateModes :
                fs' = [fs EXCEPT !.dir = TRUE, !.mstate = "empty", !.art = NoArt,
                                 !.mode = IF fs.mstate = "absent" THEN m ELSE @]
          /\ pc' = "write"
          /\ call' = call
       \/ /\ faulty
          /\ \E cause \in {"makedirs", "open"} :
                /\ fs' = IF cause = "makedirs" THEN fs ELSE [fs EXCEPT !.dir = TRUE]
                /\ call' = Failed(cause)
          /\ pc' = "return"
    /\ UNCHANGED <<clockVars, nops, tableVars, ev, hostlog, acts, nacts, actlog, envVars, workVars,
                   httpVars, histVars>>

\* f.write(netplan) and the close at the end of the with block
ApplyWrite ==
    /\ pc = "write"
    /\ \/ /\ fs' = [fs EXCEPT !.mstate = "full", !.art = call.art]
          /\ pc' = "chmod"
          /\ call' = call
       \/ /\ faulty
          /\ \E m \in {"empty", "partial"} : fs' = [fs EXCEPT !.mstate = m]
          /\ pc' = "return"
          /\ call' = Failed("write")
    /\ UNCHANGED <<clockVars, nops, tableVars, ev, hostlog, acts, nacts, actlog, envVars, workVars,
                   httpVars, histVars>>

\* os.chmod(NETPLAN_FILE, 0o600)
ApplyChmodNotFatal ==
    /\ pc = "chmod"
    /\ \/ fs' = [fs EXCEPT !.mode = OWNER_ONLY]
       \/ faulty /\ fs' = fs
    /\ pc' = IF Truthy(call.a.hostname) THEN "hostname" ELSE "popen"
    /\ UNCHANGED <<clockVars, nops, tableVars, ev, hostlog, acts, nacts, actlog, envVars, workVars,
                   httpVars, call, histVars>>
ApplyChmod ==
    /\ pc = "chmod"
    /\ \/ /\ fs' = [fs EXCEPT !.mode = OWNER_ONLY]
          /\ pc' = IF Truthy(call.a.hostname) THEN "hostname" ELSE "popen"
          /\ call' = call
       \/ /\ faulty
          /\ fs' = fs
          /\ pc' = "return"
          /\ call' = Failed("chmod")
    /\ UNCHANGED <<clockVars, nops, tableVars, ev, hostlog, acts, nacts, actlog, envVars, workVars,
                   httpVars, histVars>>

\* subprocess.run(["hostnamectl", "set-hostname", hostname], check=True,
\* timeout=10): a failure or a timeout is logged and the call goes on
ApplyHostnameFatal ==
    /\ pc = "hostname"
    /\ \E done \in BOOLEAN :
          /\ done \/ faulty
          /\ hostlog' = Append(hostlog, [name |-> call.a.hostname.v, done |-> done])
          /\ pc' = IF done THEN "popen" ELSE "return"
          /\ call' = IF done THEN call ELSE Failed("write")
    /\ UNCHANGED <<clockVars, nops, tableVars, ev, fs, acts, nacts, actlog, envVars, workVars,
                   httpVars, histVars>>
ApplyHostname ==
    /\ pc = "hostname"
    /\ \E done \in BOOLEAN :
          /\ done \/ faulty
          /\ hostlog' = Append(hostlog, [name |-> call.a.hostname.v, done |-> done])
    /\ pc' = "popen"
    /\ UNCHANGED <<clockVars, nops, tableVars, ev, fs, acts, nacts, actlog, envVars, workVars,
                   httpVars, call, histVars>>

\* subprocess.Popen(["bash", "-c", "sleep 2 && netplan apply"])
ApplyPopenNoProcess ==
    /\ pc = "popen"
    /\ call' = [call EXCEPT !.ok = TRUE]
    /\ pc' = "return"
    /\ UNCHANGED <<clockVars, nops, tableVars, ev, sysVars, envVars, workVars, httpVars,
                   histVars>>
ApplyPopen ==
    /\ pc = "popen"
    /\ acts' = acts \cup {[id |-> nacts + 1, at |-> now]}
    /\ nacts' = nacts + 1
    /\ call' = [call EXCEPT !.ok = TRUE]
    /\ pc' = "return"
    /\ UNCHANGED <<clockVars, nops, tableVars, ev, fs, hostlog, actlog, envVars, workVars, httpVars,
                   histVars>>

\* return True, new_ip or "dhcp" / return False, message; for a request the
\* handler then sends the response
ApplyReturn ==
    /\ pc = "return"
    /\ pc' = "idle"
    /\ ev' = [op |-> "apply_network_config", key |-> "", sid |-> 0, ret |-> call.ok,
              val |-> IF call.ok THEN ReturnValue(call.a) ELSE <<>>,
              err |-> IF call.ok THEN "" ELSE call.err]
    /\ resp' = IF ~call.http THEN resp
               ELSE IF call.ok
               THEN [status |-> 200, ok |-> "true", error |-> "", cookie |-> 0,
                     new_ip |-> ReturnValue(call.a), did |-> "apply_network_config"]
               ELSE [status |-> 400, ok |-> "false", error |-> call.err, cookie |-> 0,
                     new_ip |-> <<>>, did |-> "apply_network_config"]
    /\ call' = NoCall
    /\ applied' = IF call.ok
                  THEN Append(applied, [fs |-> fs, val |-> ReturnValue(call.a),
                                        nacts |-> nacts, cleanfail |-> call.cleanfail])
                  ELSE applied
    /\ UNCHANGED <<clockVars, nops, tableVars, sysVars, envVars, workVars, req>>

\* `sleep 2 && netplan apply`: once the delay is over netplan reads the
\* directory as it is at that moment
ActivateAtOnce ==
    /\ \E a \in acts : acts' = acts \ {a}
    /\ actlog' = [runs |-> actlog.runs + 1, mstate |-> fs.mstate, art |-> fs.art,
                  mode |-> fs.mode, others |-> YamlFiles(fs) \ {NETPLAN_NAME}]
    /\ UNCHANGED <<clockVars, nops, tableVars, ev, fs, hostlog, nacts, envVars, workVars, httpVars,
                   pc, call, histVars>>
Activate ==
    /\ \E a \in acts :
          /\ now - a.at >= ACTIVATE_DELAY
          /\ acts' = acts \ {a}
    /\ actlog' = [runs |-> actlog.runs + 1, mstate |-> fs.mstate, art |-> fs.art,
                  mode |-> fs.mode, others |-> YamlFiles(fs) \ {NETPLAN_NAME}]
    /\ UNCHANGED <<clockVars, nops, tableVars, ev, fs, hostlog, nacts, envVars, workVars, httpVars,
                   pc, call, histVars>>

ApplySteps ==
    \/ ApplyCleanup
    \/ ApplyOpen
    \/ ApplyWrite
    \/ ApplyChmod
    \/ ApplyHostname
    \/ ApplyPopen
    \/ ApplyReturn

\* a direct call of apply_network_config with the arguments of this behaviour
CallApply ==
    /\ pc = "idle"
    /\ nops < MaxCalls
    /\ nops' = nops + 1
    /\ \E given \in Ifaces, found \in Ifaces : StartApply(args, given, found, FALSE)
    /\ UNCHANGED <<clockVars, tableVars, sysVars, envVars, workVars, httpVars, histVars>>

NextApply == TickSecond \/ CallApply \/ ApplySteps \/ Activate

\* the directory before a call: missing, as installed, or as an earlier
\* apply left it, with or without other files
OldArt == Render(DhcpArgs, "eth0", 0)
MissingFs == [dir |-> FALSE, others |-> {}, mstate |-> "absent", art |-> NoArt,
              mode |-> "none"]
InitOthers == {{}, {"00-installer-config.yaml"}, OtherNames}
InitFsSet ==
    {MissingFs}
    \cup {[dir |-> TRUE, others |-> o, mstate |-> "absent", art |-> NoArt, mode |-> "none"]
            : o \in InitOthers}
    \cup {[dir |-> TRUE, others |-> o, mstate |-> "full", art |-> OldArt,
           mode |-> OWNER_ONLY] : o \in InitOthers}

InitApply ==
    /\ InitTables
    /\ sessions = <<>>
    /\ nsid = 0
    /\ rate_map = [c \in Clients |-> <<>>]
    /\ accepted = rate_map
    /\ token_file = [exists |-> TRUE, text |-> <<"a", "\n">>]
    /\ fs \in InitFsSet
    /\ args \in {StaticArgs, DhcpArgs}
    /\ faulty = TRUE

SpecApply == InitApply /\ [][NextApply]_vars

\* ---- the started processes run to their end ------------------------------------
\* `sleep 2` of a started process elapses whatever else the service does
TickWait ==
    /\ \E a \in acts : now - a.at < ACTIVATE_DELAY
    /\ now' = now + 1
    /\ UNCHANGED <<ticks, nops, tableVars, ev, sysVars, envVars, workVars, httpVars, pc, call,
                   histVars>>

NextApplyFair == TickSecond \/ TickWait \/ CallApply \/ ApplySteps \/ Activate

\* a started process is a process of its own: its sleep ends and the command
\* after it runs
SpecApplyFair ==
    InitApply /\ [][NextApplyFair]_vars /\ WF_vars(TickWait) /\ WF_vars(Activate)

\* ---- calls of apply_network_config over the argument space ---------------
BAD_OCTET == <<"1", "0", ".", "0", ".", "0", ".", "2", "5", "6">>
SHORT_IP == <<"1", "0", ".", "0", ".", "0">>
V6_LOOPBACK == <<":", ":", "1">>
RichArgs ==
    {[ip |-> JStr(i), cidr |-> c, gateway |-> JStr(g), dns1 |-> JStr(d1),
      dns2 |-> JStr(d2), hostname |-> JStr(S_HOST), dhcp |-> d] :
        i \in {S_IP, BAD_OCTET, V6_LOOPBACK},
        c \in {S_24, <<"3", "3">>, <<"0">>, <<"a">>, <<>>},
        g \in {S_GW, SHORT_IP},
        d1 \in {<<>>, S_DNS, <<"x">>},
        d2 \in {<<>>, <<"x">>},
        d \in BOOLEAN}

InitValidate ==
    /\ InitTables
    /\ sessions = <<>>
    /\ nsid = 0
    /\ rate_map = [c \in Clients |-> <<>>]
    /\ accepted = rate_map
    /\ token_file = [exists |-> TRUE, text |-> <<"a", "\n">>]
    /\ fs = FreshFs
    /\ args \in RichArgs
    /\ faulty = FALSE

SpecValidate == InitValidate /\ [][NextApply]_vars

\* ---- calls of apply_network_config: what is written for what was given --------
S_DNS2 == <<"1", ".", "1", ".", "1", ".", "1">>
\* "::1%a, 9.9.9.9": an IPv6 address with a scope id
SCOPED_DNS == <<":", ":", "1", "%", "a", ",", " ", "9", ".", "9", ".", "9", ".", "9">>
RenderArgs ==
    {[ip |-> JStr(i), cidr |-> c, gateway |-> JStr(g), dns1 |-> JStr(d1),
      dns2 |-> JStr(d2), hostname |-> JStr(h), dhcp |-> d] :
        i \in {S_IP, BAD_OCTET, <<>>},
        c \in {S_24, <<"a">>},
        g \in {S_GW, <<>>},
        d1 \in {<<>>, S_DNS, SCOPED_DNS},
        d2 \in {<<>>, S_DNS2, <<"x">>},
        h \in {<<>>, S_HOST},
        d \in BOOLEAN}

InitRender ==
    /\ InitTables
    /\ sessions = <<>>
    /\ nsid = 0
    /\ rate_map = [c \in Clients |-> <<>>]
    /\ accepted = rate_map
    /\ token_file = [exists |-> TRUE, text |-> <<"a", "\n">>]
    /\ fs = FreshFs
    /\ args \in RenderArgs
    /\ faulty = FALSE

SpecRender == InitRender /\ [][NextApply]_vars

\* ---- the HTTP handler ------------------------------------------------------
\* get_admin_token(): the stripped content of TOKEN_FILE, "" when it is missing
get_admin_token(tf) == IF tf.exists THEN Strip(tf.text) ELSE <<>>

\* "~" stands for a character outside ASCII
IsAscii(s) == \A i \in 1..Len(s) : s[i] # "~"

\* What POST /api/auth does with a body, once past the rate limiter:
\* "400" (unparsable body), RAISED (an exception no handler catches: no
\* response is sent), "500" (no token configured), "401" (mismatch) or "200".
AuthOutcome(body, tf) ==
    \* json.loads(self._read_body()): a body over MAX_BODY is read as b""
    IF body.kind \in {"malformed", "oversize"} THEN "400"
    \* data.get on a list, a string or a number: AttributeError
    ELSE IF body.kind = "nonobject" THEN RAISED
    \* .strip() on a value that is no string: AttributeError
    ELSE IF body.token.t # "str" THEN RAISED
    ELSE IF get_admin_token(tf) = <<>> THEN "500"
    \* secrets.compare_digest on a str that is not ASCII: TypeError
    ELSE IF ~IsAscii(Strip(body.token.v)) \/ ~IsAscii(get_admin_token(tf)) THEN RAISED
    ELSE IF Strip(body.token.v) # get_admin_token(tf) THEN "401"
    ELSE "200"

Reply(status, ok, error, did) ==
    [status |-> status, ok |-> ok, error |-> error, cookie |-> 0, new_ip |-> <<>>,
     did |-> did]
\* the handler raised: the connection is closed without a response
NoReply(did) == Reply(0, "absent", RAISED, did)

\* self._send_json({"error": "Not found"}, 404)
NotFoundAsOk == Reply(200, "absent", "", "none")
NotFound == Reply(404, "absent", "Not found", "none")

\* the handler returns without calling apply_network_config
Answer(r) ==
    /\ resp' = r
    /\ UNCHANGED <<pc, call, ev>>

\* _is_authed(): valid_session on the session cookie
IsAuthed(cookie) ==
    /\ sessions' = SessionTouch(sessions, cookie, now)
    /\ lastOk' = IF SessionValid(sessions, cookie, now)
                 THEN [lastOk EXCEPT ![cookie] = now] ELSE lastOk
    /\ nsid' = nsid

\* whether the handler found the request authenticated
AuthedNoCheck(cookie) == TRUE
AuthedWhileTokenSet(cookie) ==
    SessionValid(sessions, cookie, now) /\ get_admin_token(token_file) # <<>>
Authed(cookie) == SessionValid(sessions, cookie, now)

GetPaths == {"/", "/api/network", "/api/system", "/api/services", "/nope"}
PostPaths == {"/api/auth", "/api/network", "/api/hostname", "/nope"}
ReadOps == [p \in {"/api/network", "/api/system", "/api/services"} |->
              CASE p = "/api/network" -> "get_network_info"
                [] p = "/api/system" -> "get_system_info"
                [] p = "/api/services" -> "get_services_info"]

do_GET(path, cookie) ==
    /\ pc = "idle"
    /\ nops < MaxReqs
    /\ nops' = nops + 1
    /\ req' = [NoReq EXCEPT !.method = "GET", !.path = path, !.cookie = cookie]
    /\ IF path = "/"
       THEN /\ Answer(Reply(200, "absent", "", "html"))
            /\ UNCHANGED <<sessions, lastOk, nsid>>
       ELSE /\ IsAuthed(cookie)
            /\ IF ~Authed(cookie)
               THEN Answer(Reply(401, "absent", "Unauthorized", "none"))
               ELSE IF path \in DOMAIN ReadOps
               THEN Answer(Reply(200, "absent", "", ReadOps[path]))
               ELSE Answer(NotFound)
    /\ UNCHANGED <<clockVars, rate_map, accepted, sysVars, envVars, workVars, histVars>>

\* POST /api/auth
PostAuth(body) ==
    \E out \in {AuthOutcome(body, token_file)} :
        /\ out = "200" => nsid < MaxSessions
        /\ hostlog' = hostlog
        /\ IF out = "200"
           THEN /\ sessions' = SessionAdd(sessions, nsid + 1, now)
                /\ nsid' = nsid + 1
                /\ lastOk' = [lastOk EXCEPT ![nsid + 1] = now]
                /\ Answer([Reply(200, "true", "", "create_session")
                             EXCEPT !.cookie = nsid + 1])
           ELSE /\ UNCHANGED <<sessions, nsid, lastOk>>
                /\ Answer(CASE out = "400" -> Reply(400, "absent", "Invalid request", "none")
                            [] out = "500" -> Reply(500, "absent",
                                   "Admin token not configured on this device", "none")
                            [] out = "401" -> Reply(401, "absent", "Invalid admin token",
                                                    "none")
                            [] out = RAISED -> NoReply("none"))

\* POST /api/network, authenticated
PostNetwork(body) ==
    /\ hostlog' = hostlog
    /\ IF body.kind \in {"malformed", "oversize"}
       THEN Answer(Reply(400, "absent", "Invalid request", "none"))
       ELSE IF body.kind = "nonobject"
       THEN Answer(NoReply("none"))
       ELSE \E given \in Ifaces, found \in Ifaces :
              LET iface == IF given # "" THEN given ELSE found
              IN  \E v \in {Validate(body.net, iface)} :
                  /\ StartApply(body.net, given, found, TRUE)
                  /\ resp' = IF v = PASSED
                             THEN Reply(0, "absent", "", "apply_network_config")
                             ELSE IF v = RAISED THEN NoReply("apply_network_config")
                             ELSE Reply(400, "false", v, "apply_network_config")

\* POST /api/hostname, authenticated
PostHostname(body) ==
    IF body.kind \in {"malformed", "oversize"}
    THEN Answer(Reply(400, "absent", "Invalid request", "none")) /\ hostlog' = hostlog
    ELSE IF body.kind = "nonobject" \/ body.hostname.t # "str"
    THEN Answer(NoReply("none")) /\ hostlog' = hostlog
    ELSE IF Strip(body.hostname.v) = <<>> \/ ~HostnameMatch(Strip(body.hostname.v))
    THEN Answer(Reply(400, "absent", ERR_HOST, "none")) /\ hostlog' = hostlog
    ELSE \E done \in BOOLEAN :
            /\ done \/ faulty
            /\ hostlog' = Append(hostlog, [name |-> Strip(body.hostname.v), done |-> done])
            /\ Answer(IF done THEN Reply(200, "true", "", "set_hostname")
                      ELSE Reply(500, "absent", "hostnamectl", "set_hostname"))

\* `if not check_rate_limit(client_ip)`, the first statement of do_POST
ThrottledNever(client) == FALSE
Throttled(client) == ~RateAllowed(rate_map, client, now)

do_POST(client, path, cookie, body) ==
    /\ pc = "idle"
    /\ nops < MaxReqs
    /\ nops' = nops + 1
    /\ req' = [method |-> "POST", path |-> path, client |-> client, cookie |-> cookie,
               kind |-> body.kind, token |-> body.token]
    /\ rate_map' = RateRecord(rate_map, client, now)
    /\ accepted' = IF RateAllowed(rate_map, client, now)
                   THEN [accepted EXCEPT ![client] = Append(@, now)]
                   ELSE accepted
    /\ IF Throttled(client)
       THEN /\ Answer(Reply(429, "absent", "Too many requests. Try again later.", "none"))
            /\ UNCHANGED <<sessions, lastOk, nsid, hostlog>>
       ELSE IF path = "/api/auth"
       THEN PostAuth(body)
       ELSE /\ IsAuthed(cookie)
            /\ IF ~Authed(cookie)
               THEN Answer(Reply(401, "absent", "Unauthorized", "none"))
                    /\ hostlog' = hostlog
               ELSE IF path = "/api/network" THEN PostNetwork(body)
               ELSE IF path = "/api/hostname" THEN PostHostname(body)
               ELSE Answer(NotFound) /\ hostlog' = hostlog
    /\ UNCHANGED <<clockVars, fs, acts, nacts, actlog, envVars, workVars, histVars>>

\* ---- the requests of the model ---------------------------------------------
NoBody == [kind |-> "object", token |-> JStr(<<>>), hostname |-> JStr(<<>>),
           net |-> DhcpArgs]
Tokens == {JStr(<<"a">>), JStr(<<"b">>), JStr(<<"~">>), JNum(<<"5">>)}
Hostnames == {JStr(S_HOST), JStr(<<"-", "a">>), JNum(<<"7">>)}
NetArgs == {StaticArgs, DhcpArgs,
            [StaticArgs EXCEPT !.cidr = <<"3", "3">>],
            [StaticArgs EXCEPT !.ip = JStr(<<"1", "0", ".", "0", ".", "0">>)],
            [DhcpArgs EXCEPT !.hostname = JStr(<<"-", "a">>)],
            [DhcpArgs EXCEPT !.hostname = JNum(<<"7">>)]}
BadBodies == {[NoBody EXCEPT !.kind = k] : k \in {"malformed", "oversize", "nonobject"}}
Bodies(path) ==
    CASE path = "/api/auth" -> BadBodies \cup {[NoBody EXCEPT !.token = t] : t \in Tokens}
      [] path = "/api/network" -> BadBodies \cup {[NoBody EXCEPT !.net = a] : a \in NetArgs}
      [] path = "/api/hostname" ->
            BadBodies \cup {[NoBody EXCEPT !.hostname = h] : h \in Hostnames}
      [] OTHER -> {NoBody}

\* a request carries no cookie or an unknown one (0), or one the service set
Get == \E p \in GetPaths, k \in 0..nsid : do_GET(p, k)
Post == \E c \in Clients, p \in PostPaths, k \in 0..nsid :
           \E b \in Bodies(p) : do_POST(c, p, k, b)

\* the administrator replaces or removes TOKEN_FILE
TokenFiles == {[exists |-> FALSE, text |-> <<>>],
               [exists |-> TRUE, text |-> <<"a", "\n">>],
               [exists |-> TRUE, text |-> <<"b">>],
               [exists |-> TRUE, text |-> <<"~">>]}
RotateToken ==
    /\ \E tf \in TokenFiles \ {token_file} : token_file' = tf
    /\ UNCHANGED <<clockVars, nops, tableVars, ev, sysVars, args, faulty, httpVars, pc, call,
                   workVars, histVars>>

\* A service in use: one client has just sent all but one of the requests of
\* its window, the last of them a successful POST /api/auth that created
\* session 1; the other client has sent nothing.
InitRate == [c \in Clients |-> IF c = "10.0.0.7" THEN [i \in 1..(RATE_LIMIT - 1) |-> 0]
                               ELSE <<>>]
InitSessions == SessionAdd(<<>>, 1, 0)

\* Here the clock advances by the idle timeout: two advances age a session
\* out, one ends a rate window and the delay of a pending activation.  The
\* finer steps are those of the direct calls above.
TickHttp == Tick(SESSION_TIMEOUT)

InitHttp ==
    /\ InitTables
    /\ sessions = InitSessions
    /\ nsid = 1
    /\ rate_map = InitRate
    /\ accepted = rate_map
    /\ token_file \in TokenFiles
    /\ fs = FreshFs
    /\ args = StaticArgs
    /\ faulty = FALSE

Next == TickHttp \/ RotateToken \/ Get \/ Post \/ ApplySteps \/ Activate

Spec == InitHttp /\ [][Next]_vars

\* ---- requests seconds apart ----------------------------------------------------
\* The same service with the clock advancing by seconds, so that requests of
\* one rate window come at different times and a refresh of a session shows;
\* the token file stays as it is.
InitThrottle ==
    /\ InitHttp
    /\ token_file = [exists |-> TRUE, text |-> <<"a", "\n">>]
NextThrottle == TickSecond \/ Get \/ Post \/ ApplySteps \/ Activate
SpecThrottle == InitThrottle /\ [][NextThrottle]_vars

\* ---- requests on a device whose file system and hostnamectl may fail -----------
InitFaulty ==
    /\ InitTables
    /\ sessions = InitSessions
    /\ nsid = 1
    /\ rate_map = [c \in Clients |-> <<>>]
    /\ accepted = rate_map
    /\ token_file = [exists |-> TRUE, text |-> <<"a", "\n">>]
    /\ fs = FreshFs
    /\ args = StaticArgs
    /\ faulty = TRUE
SpecFaulty == InitFaulty /\ [][NextThrottle]_vars

\* ---- the calls of the handlers, statement by statement ---------------------
\* main() serves with http.server.HTTPServer: serve_forever accepts a request
\* and runs its handler to the end in the same thread before it accepts the
\* next, so a handler starts only while no other is in a call.
MayStartThreaded(w) == handlers[w].pc = "idle"
MayStart(w) == \A v \in Slots : handlers[v].pc = "idle"

Returned(op, key, sid, ret) ==
    [op |-> op, key |-> key, sid |-> sid, ret |-> ret, val |-> <<>>, err |-> ""]

\* check_rate_limit(ip): now = time.time(), before the lock is taken
RateEnter(w, ip) ==
    /\ MayStart(w)
    /\ nops < MaxServed
    /\ nops' = nops + 1
    /\ handlers' = [handlers EXCEPT ![w] = [NoFrame EXCEPT !.pc = "acquire",
                                              !.op = "check_rate_limit",
                                              !.key = ip, !.now = now]]
    /\ UNCHANGED <<clockVars, tableVars, ev, sysVars, envVars, httpVars, pc, call,
                   rate_lock, histVars>>

\* with _rate_lock: waits until the lock is free
RateAcquireNoLock(w) ==
    /\ handlers[w].pc = "acquire"
    /\ handlers' = [handlers EXCEPT ![w].pc = "prune"]
    /\ UNCHANGED <<clockVars, nops, tableVars, ev, sysVars, envVars, httpVars, pc, call,
                   rate_lock, histVars>>
RateAcquire(w) ==
    /\ handlers[w].pc = "acquire"
    /\ rate_lock = 0
    /\ rate_lock' = w
    /\ handlers' = [handlers EXCEPT ![w].pc = "prune"]
    /\ UNCHANGED <<clockVars, nops, tableVars, ev, sysVars, envVars, httpVars, pc, call,
                   histVars>>

\* hits = _rate_map.setdefault(ip, []); hits[:] = [t for t in hits if now - t < RATE_WINDOW]
RatePrune(w) ==
    /\ handlers[w].pc = "prune"
    /\ rate_map' = [rate_map EXCEPT ![handlers[w].key] = Prune(@, handlers[w].now)]
    /\ handlers' = [handlers EXCEPT ![w].pc = "check"]
    /\ UNCHANGED <<clockVars, nops, sessions, nsid, accepted, lastOk, ev, sysVars, envVars,
                   httpVars, pc, call, rate_lock, histVars>>

\* if len(hits) >= RATE_LIMIT: return False (leaving the with block frees the lock)
RateCheck(w) ==
    /\ handlers[w].pc = "check"
    /\ IF Len(rate_map[handlers[w].key]) >= RATE_LIMIT
       THEN /\ handlers' = [handlers EXCEPT ![w] = NoFrame]
            /\ rate_lock' = 0
            /\ ev' = Returned("check_rate_limit", handlers[w].key, 0, FALSE)
       ELSE /\ handlers' = [handlers EXCEPT ![w].pc = "append"]
            /\ UNCHANGED <<rate_lock, ev, histVars>>
    /\ UNCHANGED <<clockVars, nops, tableVars, sysVars, envVars, httpVars, pc, call,
                   histVars>>

\* hits.append(now); return True
RateAppend(w) ==
    /\ handlers[w].pc = "append"
    /\ rate_map' = [rate_map EXCEPT ![handlers[w].key] = Append(@, handlers[w].now)]
    /\ accepted' = [accepted EXCEPT ![handlers[w].key] = Append(@, handlers[w].now)]
    /\ handlers' = [handlers EXCEPT ![w] = NoFrame]
    /\ rate_lock' = 0
    /\ ev' = Returned("check_rate_limit", handlers[w].key, 0, TRUE)
    /\ UNCHANGED <<clockVars, nops, sessions, nsid, lastOk, sysVars, envVars, httpVars, pc,
                   call, histVars>>

\* create_session(): sid = secrets.token_hex(24); _sessions[sid] = time.time()
SessionCreate(w) ==
    /\ MayStart(w)
    /\ nops < MaxServed
    /\ nsid < MaxSessions
    /\ nops' = nops + 1
    /\ nsid' = nsid + 1
    /\ sessions' = SessionAdd(sessions, nsid + 1, now)
    /\ lastOk' = [lastOk EXCEPT ![nsid + 1] = now]
    /\ ev' = Returned("create_session", "", nsid + 1, TRUE)
    /\ UNCHANGED <<clockVars, rate_map, accepted, sysVars, envVars, httpVars, pc, call,
                   workVars, histVars>>

\* valid_session(sid): ts = _sessions.get(sid); if ts is None: return False
SessionGet(w, sid) ==
    /\ MayStart(w)
    /\ nops < MaxServed
    /\ nops' = nops + 1
    /\ IF sid \notin DOMAIN sessions
       THEN /\ ev' = Returned("valid_session", "", sid, FALSE)
            /\ handlers' = handlers
       ELSE /\ ev' = ev
            /\ handlers' = [handlers EXCEPT ![w] = [NoFrame EXCEPT !.pc = "expiry",
                                                      !.op = "valid_session",
                                                      !.sid = sid, !.ts = sessions[sid]]]
    /\ UNCHANGED <<clockVars, tableVars, sysVars, envVars, httpVars, pc, call, rate_lock,
                   histVars>>

\* if time.time() - ts > SESSION_TIMEOUT
SessionExpiry(w) ==
    /\ handlers[w].pc = "expiry"
    /\ handlers' = [handlers EXCEPT ![w].pc = IF now - handlers[w].ts > SESSION_TIMEOUT
                                              THEN "pop" ELSE "refresh"]
    /\ UNCHANGED <<clockVars, nops, tableVars, ev, sysVars, envVars, httpVars, pc, call,
                   rate_lock, histVars>>

\* _sessions.pop(sid, None); return False
SessionPop(w) ==
    /\ handlers[w].pc = "pop"
    /\ sessions' = [x \in DOMAIN sessions \ {handlers[w].sid} |-> sessions[x]]
    /\ handlers' = [handlers EXCEPT ![w] = NoFrame]
    /\ ev' = Returned("valid_session", "", handlers[w].sid, FALSE)
    /\ UNCHANGED <<clockVars, nops, rate_map, nsid, accepted, lastOk, sysVars, envVars,
                   httpVars, pc, call, rate_lock, histVars>>

\* _sessions[sid] = time.time(); return True: the assignment makes the entry
\* when there is none
SessionRefresh(w) ==
    /\ handlers[w].pc = "refresh"
    /\ sessions' = SessionAdd(sessions, handlers[w].sid, now)
    /\ lastOk' = [lastOk EXCEPT ![handlers[w].sid] = now]
    /\ handlers' = [handlers EXCEPT ![w] = NoFrame]
    /\ ev' = Returned("valid_session", "", handlers[w].sid, TRUE)
    /\ UNCHANGED <<clockVars, nops, rate_map, nsid, accepted, sysVars, envVars, httpVars,
                   pc, call, rate_lock, histVars>>

HandlerSteps ==
    \E w \in Slots :
        \/ \E ip \in Clients : RateEnter(w, ip)
        \/ RateAcquire(w)
        \/ RatePrune(w)
        \/ RateCheck(w)
        \/ RateAppend(w)
        \/ SessionCreate(w)
        \/ \E sid \in Sids : SessionGet(w, sid)
        \/ SessionExpiry(w)
        \/ SessionPop(w)
        \/ SessionRefresh(w)

NextHandlers == TickAny \/ HandlerSteps

\* a service in use: see InitRate and InitSessions
InitHandlers ==
    /\ InitTables
    /\ sessions = InitSessions
    /\ nsid = 1
    /\ rate_map = InitRate
    /\ accepted = rate_map
    /\ token_file = [exists |-> TRUE, text |-> <<"a", "\n">>]
    /\ fs = FreshFs
    /\ args = StaticArgs
    /\ faulty = FALSE

SpecHandlers == InitHandlers /\ [][NextHandlers]_vars

\* ---- claims on the session table and the rate limiter -------------------
\* a step that handled one call or request
Handled == nops' = nops + 1

\* number of timestamps of hits less than RATE_WINDOW before t
InWindow(hits, t) == Cardinality({i \in 1..Len(hits) : t - hits[i] < RATE_WINDOW})

\* C3: validate of a created session id returns true exactly while no more than
\* SESSION_TIMEOUT has elapsed since its create or its last successful validate
\* (so it is true right after create); a successful validate sets lastSeen to
\* now, a failed one leaves the id out of the table.
C3_SessionSlidingExpiry ==
    [][(Handled /\ ev'.op = "valid_session" /\ ev'.sid \in DOMAIN sessions)
        => /\ ev'.ret = (now - lastOk[ev'.sid] <= SESSION_TIMEOUT)
           /\ ev'.ret => (ev'.sid \in DOMAIN sessions' /\ sessions'[ev'.sid] = now)
           /\ ~ev'.ret => ev'.sid \notin DOMAIN sessions']_vars

\* a session that was refreshed after its creation and then idled out
C3_Witness ==
    /\ ev.op = "valid_session"
    /\ ~ev.ret
    /\ ev.sid \in 1..nsid
    /\ ev.sid \notin DOMAIN sessions
    /\ lastOk[ev.sid] > 0
    /\ now - lastOk[ev.sid] > SESSION_TIMEOUT

\* C4: a call for a key is accepted exactly when fewer than RATE_LIMIT calls of
\* that key were accepted less than RATE_WINDOW ago, whatever the other keys
\* did; no RATE_LIMIT + 1 accepted calls of a key lie less than RATE_WINDOW
\* apart; a call leaves the other keys' entries alone.
C4_RateWindow ==
    [][(Handled /\ ev'.op = "check_rate_limit")
        => /\ ev'.ret = (InWindow(accepted[ev'.key], now) < RATE_LIMIT)
           /\ \A c \in Clients \ {ev'.key} : rate_map'[c] = rate_map[c]
           /\ \A c \in Clients : \A i \in 1..Len(accepted'[c]) :
                  InWindow(SubSeq(accepted'[c], 1, i), accepted'[c][i]) <= RATE_LIMIT]_vars

\* one key: five calls accepted, the sixth rejected, and after the window has
\* elapsed a call is accepted again
C4_Witness ==
    /\ ev.op = "check_rate_limit"
    /\ ev.ret
    /\ Len(accepted[ev.key]) = RATE_LIMIT + 1
    /\ nops = RATE_LIMIT + 2
    /\ \A c \in Clients \ {ev.key} : accepted[c] = <<>>

\* ---- claims on the HTTP endpoints ---------------------------------------------
\* the request comes within the client's allowance of the rate window
Admitted(r) == InWindow(accepted[r.client], now) < RATE_LIMIT
\* the cookie names a session of the table that is not idle-expired
Live(cookie) == cookie \in DOMAIN sessions /\ now - sessions[cookie] <= SESSION_TIMEOUT
\* the endpoints that need a session
Protected(r) ==
    \/ r.method = "GET" /\ r.path \in {"/api/network", "/api/system", "/api/services"}
    \/ r.method = "POST" /\ r.path \in {"/api/network", "/api/hostname"}
\* the step wrote no file, changed no hostname, scheduled nothing and left no
\* apply running
Quiet ==
    /\ fs' = fs
    /\ hostlog' = hostlog
    /\ acts' = acts
    /\ nacts' = nacts
    /\ pc' = "idle"

\* C1: a POST /api/auth with a JSON object creates a session (200, ok:true, a
\* cookie naming a new entry of the table) exactly when the rate limiter admits
\* it, the stored token is non-empty and the supplied token, trimmed as the
\* stored one is, equals it; an admitted mismatch is answered 401 and an
\* admitted request with no token configured 500, the table unchanged in both.
C1_AuthIffTokenMatches ==
    [][(Handled /\ req'.method = "POST" /\ req'.path = "/api/auth" /\ req'.kind = "object")
        => LET stored == get_admin_token(token_file)
               equal == req'.token.t = "str" /\ Strip(req'.token.v) = stored
               created == /\ resp'.status = 200
                          /\ resp'.ok = "true"
                          /\ resp'.cookie \in DOMAIN sessions' \ DOMAIN sessions
           IN  /\ created <=> (Admitted(req') /\ stored # <<>> /\ equal)
               /\ (Admitted(req') /\ stored # <<>> /\ ~equal)
                     => (resp'.status = 401 /\ sessions' = sessions)
               /\ (Admitted(req') /\ stored = <<>>)
                     => (resp'.status = 500 /\ sessions' = sessions)]_vars

\* C2 as stated: the operations behind the protected endpoints run only for a
\* request whose cookie names a live session; every other request to them is
\* answered 401 and writes no file, changes no hostname, schedules nothing.
C2_UnauthenticatedAlways401 ==
    [][(Handled /\ Protected(req'))
        => /\ resp'.did # "none" => Live(req'.cookie)
           /\ ~Live(req'.cookie) => (resp'.status = 401 /\ Quiet)]_vars

\* C2 amended: the operations behind the protected endpoints run only for a
\* request whose cookie names a live session; every other request to them is
\* answered 429 when it is a POST the rate limiter turns down and 401
\* otherwise, and writes no file, changes no hostname, schedules nothing.
C2_UnauthenticatedRefused ==
    [][(Handled /\ Protected(req'))
        => /\ resp'.did # "none" => Live(req'.cookie)
           /\ ~Live(req'.cookie)
                 => /\ resp'.status = IF req'.method = "POST" /\ ~Admitted(req')
                                      THEN 429 ELSE 401
                    /\ Quiet]_vars

\* C2: a POST /api/network without a live session was turned down by the rate
\* limiter with 429, nothing written or scheduled
C2_Witness ==
    /\ req.method = "POST"
    /\ req.path = "/api/network"
    /\ req.cookie \notin DOMAIN sessions
    /\ resp.status = 429
    /\ resp.did = "none"
    /\ fs = FreshFs
    /\ nacts = 0

\* the messages of the checks of apply_network_config
ValidationErrors == {ERR_IP, ERR_CIDR, ERR_HOST, ERR_IFACE}

\* C8: when a check of apply_network_config fails for a POST /api/network, the
\* response is 400 with ok:false and the error, no file of the directory is
\* removed or written, hostnamectl is not run and no activation is scheduled.
C8_ValidationFailureInert ==
    [][(/\ Handled
        /\ req'.method = "POST"
        /\ req'.path = "/api/network"
        /\ resp'.did = "apply_network_config"
        /\ ev'.err \in ValidationErrors)
        => /\ resp'.status = 400
           /\ resp'.ok = "false"
           /\ resp'.error = ev'.err
           /\ Quiet]_vars

\* C8: a POST /api/network with cidr "33" was answered 400 and left everything
\* as it was
C8_Witness ==
    /\ req.method = "POST"
    /\ req.path = "/api/network"
    /\ ev.op = "apply_network_config"
    /\ ev.err = ERR_CIDR
    /\ resp.status = 400
    /\ resp.ok = "false"
    /\ resp.error = ERR_CIDR
    /\ fs = FreshFs
    /\ hostlog = <<>>
    /\ nacts = 0
    /\ pc = "idle"

\* ---- claims on the netplan directory --------------------------------------------
\* C5: whenever a `netplan apply` reads the directory, the managed file is
\* absent or holds a complete text, never an empty or partly written one.
C5_ActivationReadsWholeFile ==
    actlog.runs > 0 => actlog.mstate \in {"absent", "full"}

\* C6: whenever the managed file holds a complete text, its mode is owner
\* read/write only.
C6_ContentOwnerOnly ==
    fs.mstate = "full" => fs.mode = OWNER_ONLY

\* what the directory holds after a good apply: of the .yaml / .yml files only
\* the managed one, complete, with the text of this call and owner-only mode
OneConfig ==
    /\ YamlFiles(fs) = {NETPLAN_NAME}
    /\ fs.mstate = "full"
    /\ fs.art = call.art
    /\ fs.mode = OWNER_ONLY

\* C7 as stated: when apply is about to return success, whatever the directory
\* held and however the deletions went, the managed file is the only .yaml /
\* .yml file of the directory and has owner-only mode.
C7_SuccessAlwaysOneConfig ==
    (pc = "return" /\ call.ok) => OneConfig

\* C7 amended: when apply is about to return success and the listing and every
\* deletion of the cleanup succeeded, the managed file is the only .yaml / .yml
\* file of the directory and has owner-only mode.
C7_SuccessOneConfig ==
    (pc = "return" /\ call.ok /\ ~call.cleanfail) => OneConfig

\* C7: a good apply on a directory that held the installer's .yaml, a .yml and
\* a file that is no configuration has removed the first two
C7_Witness ==
    /\ pc = "return"
    /\ call.ok
    /\ ~call.cleanfail
    /\ fs.others = {"README"}
    /\ OneConfig

\* ---- claims on the checks of apply_network_config -----------------------------
\* a supplied address that is no dotted-quad IPv4 address
MalformedV4(j) == j.v # <<>> /\ ~(j.t = "str" /\ IsIPv4(j.v))
\* int(cidr) is in 1..32
CidrInRange(c) == IsInt(c) /\ IntVal(c) \in 1..32

\* C9: with a malformed IPv4 string in ip, gateway, dns1 or dns2, whatever the
\* dhcp flag, the checks never pass and the managed file is never written.
C9_MalformedAddressRejected ==
    (\E j \in {args.ip, args.gateway, args.dns1, args.dns2} : MalformedV4(j))
        => (ev.err # PASSED /\ ~ev.ret /\ pc = "idle" /\ fs = FreshFs)

\* C10: for a static configuration with well-formed ip and gateway, a cidr
\* outside 1..32 fails with the CIDR message, and a cidr inside 1..32 fails
\* with neither the CIDR nor the address message when the DNS entries are
\* well-formed too.
C10_CidrSpecificError ==
    (/\ ev.op = "apply_network_config"
     /\ ~args.dhcp
     /\ ~MalformedV4(args.ip) /\ args.ip.v # <<>>
     /\ ~MalformedV4(args.gateway) /\ args.gateway.v # <<>>
     /\ ~MalformedV4(args.dns1)
     /\ ~MalformedV4(args.dns2))
        => IF CidrInRange(args.cidr)
           THEN ev.err \notin {ERR_CIDR, ERR_IP}
           ELSE ~ev.ret /\ ev.err = ERR_CIDR

\* ---- claims on the activation -------------------------------------------------
\* C11: a call of apply turns to success exactly in the step that starts one
\* `sleep 2 && netplan apply`, and returns what it turned to; a started process
\* leaves the pending ones only by running, once, no sooner than its delay and
\* without touching the value returned or the response sent; every started
\* process is pending or has run; and every started process eventually runs.
C11_OneActivationPerSuccess ==
    /\ [][/\ (call'.ok /\ ~call.ok)
              <=> (nacts' = nacts + 1 /\ acts' = acts \cup {[id |-> nacts', at |-> now]})
          /\ nacts' \in {nacts, nacts + 1}
          /\ (pc = "return" /\ pc' = "idle") => ev'.ret = call.ok
          /\ ~(acts \subseteq acts')
                => \E a \in acts :
                      /\ acts' = acts \ {a}
                      /\ now - a.at >= ACTIVATE_DELAY
                      /\ actlog'.runs = actlog.runs + 1
                      /\ ev' = ev /\ resp' = resp /\ pc' = pc /\ call' = call]_vars
    /\ [](actlog.runs + Cardinality(acts) = nacts)
    /\ \A i \in 1..MaxCalls :
          (\E a \in acts : a.id = i) ~> (\A a \in acts : a.id # i)

\* C11: two calls returned success, each started one process, both have run
C11_Witness ==
    /\ nops = 2
    /\ nacts = 2
    /\ acts = {}
    /\ actlog.runs = 2
    /\ ev.op = "apply_network_config"
    /\ ev.ret
    /\ pc = "idle"

Written ==
    /\ fs.mstate = "full"
    /\ fs.art = call.art
    /\ fs.mode = OWNER_ONLY

\* C13: hostnamectl is run only by a call that was given a non-empty hostname
\* and has written its file, with that hostname, once; whether it succeeds or
\* fails the file stays as written and the call goes on to start the
\* activation, which makes it a success, and success is what it returns.
C13_HostnameFailureNotFatal ==
    [][/\ hostlog' # hostlog
            => /\ pc = "hostname"
               /\ Truthy(call.a.hostname)
               /\ Written
               /\ \E done \in BOOLEAN :
                     hostlog' = Append(hostlog, [name |-> call.a.hostname.v,
                                                 done |-> done])
               /\ fs' = fs
               /\ pc' = "popen"
       /\ (pc = "popen" /\ pc' # "popen")
            => /\ pc' = "return"
               /\ call'.ok
               /\ nacts' = nacts + 1
               /\ fs' = fs
       /\ (pc = "return" /\ pc' # "return" /\ call.ok)
            => /\ ev'.ret
               /\ fs' = fs]_vars

\* C13: the one call so far was given a hostname, hostnamectl failed, and the
\* call returned success with its file written and its activation started
C13_Witness ==
    /\ nops = 1
    /\ pc = "idle"
    /\ Len(hostlog) = 1
    /\ hostlog[1].name = S_HOST
    /\ ~hostlog[1].done
    /\ ev.op = "apply_network_config"
    /\ ev.ret
    /\ nacts = 1
    /\ fs.mstate = "full"
    /\ fs.mode = OWNER_ONLY

\* C14: a failure of the cleanup (the directory cannot be listed, or a file
\* of another origin cannot be deleted) does not end the call: the cleanup
\* step always hands over to the write with no error recorded, a call past
\* the checks fails only in the write block, and a call that gets through the
\* write block has the managed file written, schedules the activation and
\* returns success.  The cleanup deletes only .yaml/.yml files of another
\* name: the managed file is as it was before the cleanup.
C14_CleanupFailureNotFatal ==
    /\ [][/\ (pc = "cleanup" /\ pc' # "cleanup")
               => /\ pc' = "open"
                  /\ call'.err = "" /\ ~call'.ok
                  /\ fs'.mstate = fs.mstate /\ fs'.art = fs.art /\ fs'.mode = fs.mode
                  /\ fs'.dir = fs.dir
                  /\ fs'.others \subseteq fs.others
                  /\ \A n \in fs.others \ fs'.others : IsYamlName(n) /\ n # NETPLAN_NAME
          /\ (pc' = "return" /\ pc # "return" /\ ~call'.ok)
               => pc \in {"open", "write", "chmod"} /\ call'.err \in WriteErrors
          /\ (pc' = "return" /\ pc # "return" /\ call'.ok)
               => nacts' = nacts + 1 /\ [id |-> nacts', at |-> now] \in acts'
          /\ (pc = "return" /\ pc' # "return" /\ call.ok) => ev'.ret]_vars
    /\ []((pc \in {"hostname", "popen"} \/ (pc = "return" /\ call.ok)) => Written)
C14_Witness ==
    /\ nops = 1 /\ pc = "idle"
    /\ ev.op = "apply_network_config" /\ ev.ret
    /\ "50-cloud-init.yml" \in fs.others
    /\ fs.mstate = "full" /\ fs.mode = OWNER_ONLY
    /\ nacts = 1

\* ---- further claims on POST /api/auth -----------------------------------------
\* C15: an admitted POST /api/auth whose token (an ASCII string) is not the
\* stored one is answered with the same 401 "Invalid admin token" whether
\* TOKEN_FILE is absent or holds another token, and creates no session.
C15_FailureHidesTokenPresence ==
    [][(/\ Handled /\ req'.method = "POST" /\ req'.path = "/api/auth"
        /\ req'.kind = "object" /\ Admitted(req')
        /\ req'.token.t = "str" /\ IsAscii(Strip(req'.token.v))
        /\ Strip(req'.token.v) # get_admin_token(token_file))
        => /\ resp'.status = 401
           /\ resp'.error = "Invalid admin token"
           /\ sessions' = sessions]_vars

\* ---- claims on calls made while other requests are handled -------------------
\* the handler is inside `with _rate_lock:`
InSection(w) == handlers[w].pc \in {"prune", "check", "append"}
IsSuffix(s, t) == Len(s) <= Len(t) /\ s = SubSeq(t, Len(t) - Len(s) + 1, Len(t))

InValidate(w) == handlers[w].pc \in {"expiry", "pop", "refresh"}

C18_RejectedRecordsNothing ==
    [][(Handled /\ ev'.op = "check_rate_limit")
        => LET ip == ev'.key
               old == rate_map[ip]
               new == rate_map'[ip]
               gone == Len(old) - Len(new)
           IN  /\ ev'.ret <=> InWindow(accepted[ip], now) < RATE_LIMIT
               /\ ~ev'.ret
                     => /\ IsSuffix(new, old)
                        /\ \A i \in 1..Len(old) : (i <= gone) <=> (now - old[i] >= RATE_WINDOW)
                        /\ accepted' = accepted
                        /\ \A c \in Clients \ {ip} : rate_map'[c] = rate_map[c]]_vars
C18_Witness ==
    /\ nops = RATE_LIMIT + 2
    /\ ev.op = "check_rate_limit" /\ ev.key = "10.0.0.7" /\ ev.ret
    /\ accepted["10.0.0.8"] = <<>>
    /\ Len(accepted["10.0.0.7"]) = RATE_LIMIT + 1
    /\ accepted["10.0.0.7"][RATE_LIMIT + 1] = accepted["10.0.0.7"][1] + RATE_WINDOW

\* C19: an admitted POST /api/auth with a JSON object whose token is a string
\* is decided against TOKEN_FILE as it is when the request is handled: it
\* succeeds (200, ok:true, a cookie naming a new session) exactly when the
\* file holds a non-empty token and the supplied token, trimmed, equals it,
\* whatever the file held before; otherwise no session is created.
C19_DecidedAgainstStoredToken ==
    [][(/\ Handled /\ req'.method = "POST" /\ req'.path = "/api/auth"
        /\ req'.kind = "object" /\ req'.token.t = "str" /\ Admitted(req'))
        => LET stored == get_admin_token(token_file)
               created == /\ resp'.status = 200
                          /\ resp'.ok = "true"
                          /\ resp'.cookie \in DOMAIN sessions' \ DOMAIN sessions
           IN  /\ created <=> (stored # <<>> /\ Strip(req'.token.v) = stored)
               /\ ~created => (sessions' = sessions /\ resp'.status # 200)]_vars

\* ---- claims on the request bodies ------------------------------------------------
\* C20: every POST is answered (no handler ends on an exception, whatever
\* the body), and a body that is no JSON, or is longer than MAX_BODY
\* and so not read, gets 400 "Invalid request" from /api/auth and, with a live
\* session, from /api/network and /api/hostname, once the rate limiter has
\* admitted the request; such a request creates no session, writes no file,
\* changes no hostname and schedules no activation.
C20_EveryBodyAnswered ==
    [][(Handled /\ req'.method = "POST")
        => /\ resp'.error # RAISED
           /\ pc' = "idle" => resp'.status # 0
           /\ (/\ req'.kind \in {"malformed", "oversize"}
               /\ Admitted(req')
               /\ \/ req'.path = "/api/auth"
                  \/ req'.path \in {"/api/network", "/api/hostname"} /\ Live(req'.cookie))
                => /\ resp'.status = 400
                   /\ resp'.error = "Invalid request"
                   /\ DOMAIN sessions' = DOMAIN sessions
                   /\ Quiet]_vars

\* ---- claims on the routing ----------------------------------------------------------
\* C21 as stated: every request to a path that is no endpoint is answered 404,
\* whatever its session and the rate-limit state of its client.
C21_UnknownPathAlways404 ==
    [][(Handled /\ req'.path = "/nope") => resp'.status = 404]_vars

\* C21: a request to a path that is no endpoint is answered 429 when it is a
\* POST the rate limiter turns down, else 401 when its cookie names no live
\* session, else 404 "Not found"; in each case nothing is written, no
\* hostname set, no activation scheduled and no session created.
C21_UnknownPathBehindGates ==
    [][(Handled /\ req'.path = "/nope")
        => /\ resp'.status = IF req'.method = "POST" /\ ~Admitted(req') THEN 429
                             ELSE IF ~Live(req'.cookie) THEN 401
                             ELSE 404
           /\ resp'.status = 404 => resp'.error = "Not found"
           /\ resp'.did = "none"
           /\ DOMAIN sessions' \subseteq DOMAIN sessions
           /\ Quiet]_vars
C21_Witness ==
    /\ req.method = "POST" /\ req.path = "/nope"
    /\ resp.status = 404 /\ resp.error = "Not found"
    /\ nops = 2

\* ---- claims on the text apply_network_config writes -------------------------------
\* the entries a reader of the YAML flow sequence `[text]` finds
FlowList(text) == [i \in 1..Len(Split(text, ",")) |-> Strip(Split(text, ",")[i])]
\* the supplied DNS entries that are not empty, dns1 first
SuppliedDns(a) == [i \in 1..Len(DnsList(a)) |-> DnsList(a)[i].v]
PublicResolvers == << <<"8", ".", "8", ".", "8", ".", "8">>, S_DNS2 >>
\* a call with the arguments of this behaviour has written its file and
\* succeeded, and has not returned yet
Succeeding == pc = "return" /\ call.ok
\* such a call has returned
Succeeded == pc = "idle" /\ ev.op = "apply_network_config" /\ ev.ret

\* C22: a static configuration that passes the checks is written as one
\* interface with dhcp4 and dhcp6 false, the one address ip/cidr, the default
\* route via gateway and a nameserver list that reads as the supplied
\* non-empty DNS entries, dns1 first, or as 8.8.8.8 and 1.1.1.1 when there
\* is none; hostnamectl is run with the supplied hostname as it is, and the
\* call returns the supplied ip.
C22_StaticRendering ==
    ~args.dhcp
        => /\ Succeeding
                => /\ fs.mstate = "full"
                   /\ fs.art.iface = call.iface /\ call.iface # ""
                   /\ ~fs.art.dhcp4 /\ ~fs.art.dhcp6
                   /\ fs.art.addresses = << args.ip.v \o <<"/">> \o args.cidr >>
                   /\ fs.art.via = << args.gateway.v >>
                   /\ FlowList(fs.art.nameservers) =
                         IF SuppliedDns(args) = <<>> THEN PublicResolvers
                         ELSE SuppliedDns(args)
                   /\ IF Truthy(args.hostname)
                      THEN /\ hostlog # <<>>
                           /\ hostlog[Len(hostlog)].name = args.hostname.v
                      ELSE hostlog = <<>>
           /\ Succeeded => ev.val = args.ip.v /\ args.ip.v # <<>>

\* a non-empty DNS entry that ipaddress.ip_address turns down
BadDns(a) == \E j \in {a.dns1, a.dns2} : Truthy(j) /\ ~IsIP(j)

\* C23 as stated: a DHCP configuration, whatever its ip, cidr, gateway and
\* DNS entries, is applied and the call returns "dhcp" (an interface being
\* there).
C23_DhcpAlwaysApplied ==
    (args.dhcp /\ pc = "idle" /\ ev.op = "apply_network_config" /\ ev.err # ERR_IFACE)
        => (ev.ret /\ ev.val = DHCP_SENTINEL)

\* C23: with dhcp set ip, cidr and gateway are not looked at, the DNS entries
\* are: the call fails with the address message exactly when a non-empty DNS
\* entry is no address; otherwise (an interface being there) the file written
\* has dhcp4 true, dhcp6 false and no addresses, route or nameservers, and
\* the call returns "dhcp".
C23_DhcpRendering ==
    args.dhcp
        => /\ Succeeding
                => /\ fs.mstate = "full"
                   /\ fs.art.iface = call.iface /\ call.iface # ""
                   /\ fs.art.dhcp4 /\ ~fs.art.dhcp6
                   /\ fs.art.addresses = <<>>
                   /\ fs.art.via = <<>>
                   /\ fs.art.nameservers = <<>>
                   /\ ~BadDns(args)
           /\ Succeeded => ev.val = DHCP_SENTINEL
           /\ (pc = "idle" /\ ev.op = "apply_network_config" /\ ~ev.ret)
                => /\ ev.err \in {ERR_IP, ERR_IFACE}
                   /\ (ev.err = ERR_IP) <=> BadDns(args)
                   /\ nacts = 0 => fs = FreshFs
C23_Witness ==
    /\ args.dhcp
    /\ args.ip.v = BAD_OCTET /\ args.cidr = <<"a">> /\ args.gateway.v = <<>>
    /\ args.dns1.v = S_DNS
    /\ Succeeded /\ ev.val = DHCP_SENTINEL
    /\ fs.mstate = "full" /\ fs.art.dhcp4 /\ fs.art.addresses = <<>>

\* two directories that differ at most in the "# Generated: ..." line of the
\* service's file
SameStored(f, g) == [f EXCEPT !.art.stamp = 0] = [g EXCEPT !.art.stamp = 0]
\* the k-th and the next successful apply of the same arguments returned the
\* same value and each started one process
SameOutcome(k) ==
    /\ applied[k].val = applied[k + 1].val
    /\ applied[k].nacts = k
    /\ applied[k + 1].nacts = k + 1

\* C24 as stated: after a second successful apply of the same configuration
\* the directory and the file (but for the Generated line) are those the
\* first apply left, the returned value is the same and each apply started
\* one activation.
C24_ReapplyAlwaysSame ==
    \A k \in 1..(Len(applied) - 1) :
        SameStored(applied[k].fs, applied[k + 1].fs) /\ SameOutcome(k)

\* C24, amended: the returned value is the same and each apply starts one
\* activation; the directory and the file (but for the Generated line) are
\* the same as after the first apply when the first apply's cleanup raised
\* nothing.
C24_ReapplySame ==
    \A k \in 1..(Len(applied) - 1) :
        /\ SameOutcome(k)
        /\ ~applied[k].cleanfail => SameStored(applied[k].fs, applied[k + 1].fs)
C24_Witness ==
    /\ Len(applied) = 2
    /\ ~applied[1].cleanfail
    /\ applied[1].fs.art.stamp # applied[2].fs.art.stamp
    /\ applied[1].fs.others # {}

\* C25: a POST the rate limiter rejects is answered 429 whatever its path,
\* cookie and body, with the session table, the body-dependent answers and
\* everything else untouched; every POST that is not answered 429 was counted
\* by the limiter, so no more than RATE_LIMIT POSTs of a client (token guesses
\* among them) are processed less than RATE_WINDOW apart; a GET leaves the
\* rate table alone.
C25_RateLimiterFirst ==
    [][/\ (Handled /\ req'.method = "POST" /\ ~Admitted(req'))
           => /\ resp' = Reply(429, "absent", "Too many requests. Try again later.", "none")
              /\ sessions' = sessions
              /\ lastOk' = lastOk
              /\ nsid' = nsid
              /\ accepted' = accepted
              /\ Quiet
       /\ (Handled /\ req'.method = "POST" /\ resp'.status # 429)
           => /\ accepted'[req'.client] = Append(accepted[req'.client], now)
              /\ \A i \in 1..Len(accepted'[req'.client]) :
                     InWindow(SubSeq(accepted'[req'.client], 1, i),
                              accepted'[req'.client][i]) <= RATE_LIMIT
       /\ (Handled /\ req'.method = "GET")
           => rate_map' = rate_map /\ accepted' = accepted]_vars
\* a rejected POST that carried a live session a lookup would have refreshed
C25_Witness ==
    /\ req.method = "POST"
    /\ resp.status = 429
    /\ req.path = "/api/network"
    /\ req.kind = "malformed"
    /\ req.cookie = 1
    /\ Live(1)
    /\ now > sessions[1]

\* the statement of the write block a failed call stopped at
StoppedAt(err) ==
    CASE err \in {WriteError("makedirs"), WriteError("open")} -> "open"
      [] err = WriteError("write") -> "write"
      [] err = WriteError("chmod") -> "chmod"
      [] OTHER -> "none"

\* C26: a call leaves the write block towards the hostname and the activation
\* only with the file written and owner-only; when makedirs, open, write or
\* chmod raises, the call returns (False, "Failed to write netplan: <cause>")
\* at once, the steps up to there having run no hostnamectl and started no
\* process, the files the cleanup removed stay removed, and the request is
\* answered 400 with that message.
C26_WriteFailureFails ==
    /\ [](pc \in {"hostname", "popen"}
            => fs.dir /\ fs.mstate = "full" /\ fs.art = call.art /\ fs.mode = OWNER_ONLY)
    /\ [][/\ (pc \in {"cleanup", "open", "write", "chmod"} /\ pc' # pc)
               => hostlog' = hostlog /\ nacts' = nacts /\ acts' = acts
          /\ (pc # "return" /\ pc' = "return" /\ ~call'.ok)
               => /\ pc \in {"open", "write", "chmod"}
                  /\ StoppedAt(call'.err) = pc
                  /\ fs'.others = fs.others
          /\ (pc = "return" /\ pc' # "return" /\ ~call.ok)
               => /\ pc' = "idle"
                  /\ ~ev'.ret /\ ev'.err = call.err
                  /\ call.http => /\ resp'.status = 400
                                  /\ resp'.ok = "false"
                                  /\ resp'.error = call.err
                  /\ fs' = fs /\ hostlog' = hostlog /\ nacts' = nacts /\ acts' = acts]_vars
\* a POST /api/network whose chmod failed after the cleanup
\* had removed the installer's file
C26_Witness ==
    /\ pc = "idle"
    /\ req.path = "/api/network"
    /\ resp.status = 400
    /\ resp.error = WriteError("chmod")
    /\ "00-installer-config.yaml" \notin fs.others
    /\ fs.mstate = "full"
    /\ fs.mode # OWNER_ONLY
    /\ hostlog = <<>>
    /\ nacts = 0

\* the request is one the session check is reached for
Checked(r) == Protected(r) /\ (r.method = "POST" => Admitted(r))

\* C27: an id enters the table only as the new id of a POST /api/auth that
\* presented the stored token and was answered 200; it leaves only by a
\* check of that id found idle-expired, which is refused; an id that has left
\* never returns and every later check of it is refused; a change or removal
\* of the token file leaves the table as it is, and a live session is served
\* whatever the token file holds.
C27_SessionsOnlyByAuth ==
    [][/\ \A sid \in 1..MaxSessions :
             /\ (sid \notin DOMAIN sessions /\ sid \in DOMAIN sessions')
                   => /\ Handled /\ req'.method = "POST" /\ req'.path = "/api/auth"
                      /\ sid > nsid
                      /\ resp'.status = 200 /\ resp'.cookie = sid
                      /\ get_admin_token(token_file) # <<>>
                      /\ Strip(req'.token.v) = get_admin_token(token_file)
             /\ (sid \in DOMAIN sessions /\ sid \notin DOMAIN sessions')
                   => /\ Handled /\ req'.cookie = sid
                      /\ now - sessions[sid] > SESSION_TIMEOUT
                      /\ resp'.status = 401
             /\ (sid \in 1..nsid /\ sid \notin DOMAIN sessions)
                   => /\ sid \notin DOMAIN sessions'
                      /\ (Handled /\ req'.cookie = sid /\ Checked(req'))
                            => resp'.status = 401
       /\ token_file' # token_file => sessions' = sessions
       /\ (Handled /\ Checked(req') /\ Live(req'.cookie))
             => resp'.status # 401 /\ sessions'[req'.cookie] = now]_vars
\* a session created with the token, the token file then removed, and the
\* session served afterwards
C27_Witness ==
    /\ ~token_file.exists
    /\ req.method = "GET"
    /\ req.path = "/api/network"
    /\ req.cookie = 2
    /\ resp.status = 200
    /\ 2 \in DOMAIN sessions
====
